---- MODULE Spec2Model ----
(***************************************************************************)
(* Model of llm-code-review's unified-diff parser                          *)
(* (src/src/parsers/diff_parser.py, class DiffParser), of its file         *)
(* classifier (src/src/parsers/file_classifier.py), of its reviewer        *)
(* factory (src/src/reviewers/reviewer_factory.py) and of its rate limiter *)
(* (src/src/utils/rate_limit.py).                                          *)
(*                                                                         *)
(* A Python str is a sequence of one-character strings; a line is such a   *)
(* sequence without "\n".  Python's None in a change's "old"/"new" slot is *)
(* the value None below, which no str equals (its only element is not a    *)
(* single character).  The three public methods are pure functions of      *)
(* diff_text; they are operators, applied by the Call* actions to inputs   *)
(* drawn by the Init predicates.  So are the classifier's methods          *)
(* (arguments file_name, file_list) and the factory's (the Config class    *)
(* attributes, config).                                                    *)
(***************************************************************************)
EXTENDS Integers, Sequences, FiniteSets, TLC

VARIABLES diff_text, file_name, file_list, config, op, result,
          max_calls, period, calls, now, started

vars == <<diff_text, file_name, file_list, config, op, result,
          max_calls, period, calls, now, started>>

(* the rate limiter: the decorator's arguments, its deque, the clock, and  *)
(* the times at which the wrapped function was started                     *)
limiter == <<max_calls, period, calls, now, started>>

(* what a call is given *)
args == <<diff_text, file_name, file_list, config>>

----------------------------------------------------------------------------
(* Bounds of the input generators. *)

MaxLines == 4

MaxBody == 5

MaxSegs == 3

MaxFiles == 2

MaxMeta == 4

MaxPair == 5

MaxCalls == 2

MaxPeriod == 3

MaxTime == 6

MaxLate == 1

MaxStarted == 4

----------------------------------------------------------------------------
(* Python str primitives used by the parser. *)

NL == "\n"

None == <<"None">>

NoLineNo == -1

IsSpace(c) == c \in {" ", NL, "\t"}

IsDigit(c) == c \in {"0", "1", "2", "3", "4", "5", "6", "7", "8", "9"}

DigitVal(c) ==
    CASE c = "0" -> 0 [] c = "1" -> 1 [] c = "2" -> 2 [] c = "3" -> 3
      [] c = "4" -> 4 [] c = "5" -> 5 [] c = "6" -> 6 [] c = "7" -> 7
      [] c = "8" -> 8 [] c = "9" -> 9

RECURSIVE LStrip(_)
LStrip(s) == IF s # <<>> /\ IsSpace(Head(s)) THEN LStrip(Tail(s)) ELSE s

RECURSIVE RStrip(_)
RStrip(s) ==
    IF s # <<>> /\ IsSpace(s[Len(s)]) THEN RStrip(SubSeq(s, 1, Len(s) - 1)) ELSE s

Strip(s) == RStrip(LStrip(s))

(* str.splitlines(): a line ends at each "\n"; no empty line after the last *)
RECURSIVE SplitFrom(_, _)
SplitFrom(s, i) ==
    IF i > Len(s) THEN <<>>
    ELSE LET breaks == {j \in i..Len(s) : s[j] = NL} IN
         IF breaks = {} THEN <<SubSeq(s, i, Len(s))>>
         ELSE LET j == CHOOSE b \in breaks : \A c \in breaks : b <= c
              IN  <<SubSeq(s, i, j - 1)>> \o SplitFrom(s, j + 1)

SplitLines(s) == SplitFrom(s, 1)

(* "\n".join(lines) *)
RECURSIVE JoinLines(_)
JoinLines(ls) ==
    IF ls = <<>> THEN <<>>
    ELSE IF Len(ls) = 1 THEN ls[1]
    ELSE ls[1] \o <<NL>> \o JoinLines(Tail(ls))

StartsWith(s, p) == Len(s) >= Len(p) /\ SubSeq(s, 1, Len(p)) = p

(* int() of a run of decimal digits *)
RECURSIVE DigitsToInt(_)
DigitsToInt(ds) ==
    IF ds = <<>> THEN 0
    ELSE 10 * DigitsToInt(SubSeq(ds, 1, Len(ds) - 1)) + DigitVal(ds[Len(ds)])

----------------------------------------------------------------------------
(* A small regular-expression engine for the two patterns: each step takes *)
(* the position of the next unread character and returns the position      *)
(* after its match, or 0 when it does not match.                           *)

MatchLit(s, i, lit) ==
    IF i = 0 THEN 0
    ELSE IF Len(s) >= i + Len(lit) - 1 /\ SubSeq(s, i, i + Len(lit) - 1) = lit
         THEN i + Len(lit)
    ELSE 0

RECURSIVE RunEnd(_, _, _)
RunEnd(s, i, isDigits) ==
    IF i <= Len(s) /\ (IF isDigits THEN IsDigit(s[i]) ELSE ~IsSpace(s[i]))
    THEN RunEnd(s, i + 1, isDigits)
    ELSE i

(* \S+ and \d+ : greedy, at least one character.  The literal that follows *)
(* either pattern starts with a character outside the class, so giving     *)
(* characters back never produces a match the greedy run does not.         *)
MatchNonSpace(s, i) ==
    IF i = 0 THEN 0 ELSE LET e == RunEnd(s, i, FALSE) IN IF e > i THEN e ELSE 0

MatchDigits(s, i) ==
    IF i = 0 THEN 0 ELSE LET e == RunEnd(s, i, TRUE) IN IF e > i THEN e ELSE 0

DiffGit == <<"d", "i", "f", "f", " ", "-", "-", "g", "i", "t">>

(* FILE_HEADER_RE = ^diff --git a/(\S+) b/(\S+) *)
FILE_HEADER_RE(line) ==
    LET p1 == MatchLit(line, 1, DiffGit \o <<" ", "a", "/">>)
        p2 == MatchNonSpace(line, p1)
        p3 == MatchLit(line, p2, <<" ", "b", "/">>)
        p4 == MatchNonSpace(line, p3)
    IN  IF p4 = 0 THEN [matched |-> FALSE, file_a |-> <<>>, file_b |-> <<>>]
        ELSE [matched |-> TRUE,
              file_a |-> SubSeq(line, p1, p2 - 1),
              file_b |-> SubSeq(line, p3, p4 - 1)]

(* mutant: the lengths are optional, @@ -(\d+)(,\d+)? \+(\d+)(,\d+)? @@ *)
HUNK_HEADER_RE_ShortForm(line) ==
    LET p1 == MatchLit(line, 1, <<"@", "@", " ", "-">>)
        p2 == MatchDigits(line, p1)
        p3 == MatchLit(line, p2, <<",">>)
        p4 == IF p3 = 0 THEN p2 ELSE MatchDigits(line, p3)
        p5 == MatchLit(line, p4, <<" ", "+">>)
        p6 == MatchDigits(line, p5)
        p7 == MatchLit(line, p6, <<",">>)
        p8 == IF p7 = 0 THEN p6 ELSE MatchDigits(line, p7)
        p9 == MatchLit(line, p8, <<" ", "@", "@">>)
    IN  IF p9 = 0 THEN [matched |-> FALSE, old_start |-> 0, new_start |-> 0]
        ELSE [matched |-> TRUE,
              old_start |-> DigitsToInt(SubSeq(line, p1, p2 - 1)),
              new_start |-> DigitsToInt(SubSeq(line, p5, p6 - 1))]

(* HUNK_HEADER_RE = ^@@ -(\d+),(\d+) \+(\d+),(\d+) @@ *)
HUNK_HEADER_RE(line) ==
    LET p1 == MatchLit(line, 1, <<"@", "@", " ", "-">>)
        p2 == MatchDigits(line, p1)
        p3 == MatchLit(line, p2, <<",">>)
        p4 == MatchDigits(line, p3)
        p5 == MatchLit(line, p4, <<" ", "+">>)
        p6 == MatchDigits(line, p5)
        p7 == MatchLit(line, p6, <<",">>)
        p8 == MatchDigits(line, p7)
        p9 == MatchLit(line, p8, <<" ", "@", "@">>)
    IN  IF p9 = 0 THEN [matched |-> FALSE, old_start |-> 0, new_start |-> 0]
        ELSE [matched |-> TRUE,
              old_start |-> DigitsToInt(SubSeq(line, p1, p2 - 1)),
              new_start |-> DigitsToInt(SubSeq(line, p5, p6 - 1))]

----------------------------------------------------------------------------
(* DiffParser.parse                                                        *)
(*                                                                         *)
(* Its outcome is one record: kind "empty" for the returned {} , kind      *)
(* "FileDiff" for the returned {"file", "changes"}, kind "ValueError" for  *)
(* the raised exception.                                                   *)

EmptyDict == [kind |-> "empty", file |-> <<>>, changes |-> <<>>]

RaisedValueError == [kind |-> "ValueError", file |-> <<>>, changes |-> <<>>]

(* mutant: tests for the empty string only *)
IsBlankText_NoStrip(text) == text = <<>>

(* not diff_text.strip() *)
IsBlankText(text) == Strip(text) = <<>>

(* mutant: accepts any first line that begins with "diff --git" *)
FileMatch_PrefixOnly(lines) ==
    IF lines # <<>> /\ StartsWith(lines[1], DiffGit)
    THEN [matched |-> TRUE, file_a |-> <<"x">>, file_b |-> <<"x">>]
    ELSE [matched |-> FALSE, file_a |-> <<>>, file_b |-> <<>>]

(* file_match = FILE_HEADER_RE.match(lines[0]) if lines else None *)
FileMatch(lines) ==
    IF lines = <<>> THEN [matched |-> FALSE, file_a |-> <<>>, file_b |-> <<>>]
    ELSE FILE_HEADER_RE(lines[1])

(* mutant: takes the first group *)
FileName_OldPath(file_match) == file_match.file_a

(* _file_a, file_b = file_match.groups(); file_name = file_b *)
FileName(file_match) == file_match.file_b

(* mutant: "---" is not in the tuple of prefixes *)
IsMetadata_NoOldFile(line) ==
    \/ StartsWith(line, <<"+", "+", "+">>)
    \/ StartsWith(line, DiffGit)
    \/ StartsWith(line, <<"i", "n", "d", "e", "x", " ">>)

(* line.startswith(("+++", "---", "diff --git", "index ")) *)
IsMetadata(line) ==
    \/ StartsWith(line, <<"+", "+", "+">>)
    \/ StartsWith(line, <<"-", "-", "-">>)
    \/ StartsWith(line, DiffGit)
    \/ StartsWith(line, <<"i", "n", "d", "e", "x", " ">>)

(* mutant: also drops the whitespace after the marker *)
Content_Stripped(line) == LStrip(Tail(line))

(* line[1:] *)
Content(line) == Tail(line)

(* mutant: both counters start at 0 *)
LoopInit_Zero ==
    [changes |-> <<>>, old_line_no |-> 0, new_line_no |-> 0, raised |-> ""]

(* The loop's local state: changes, old_line_no, new_line_no; raised is   *)
(* the exception that ended the loop, "" while there is none.             *)
LoopInit ==
    [changes |-> <<>>, old_line_no |-> NoLineNo, new_line_no |-> NoLineNo, raised |-> ""]

(* None += 1 *)
RaiseTypeError(st) == [st EXCEPT !.raised = "TypeError"]

(* mutant: turns the header's start into a 0-based index *)
OnHunk_ZeroBased(st, hunk) ==
    [st EXCEPT !.old_line_no = hunk.old_start - 1, !.new_line_no = hunk.new_start - 1]

(* mutant: a hunk header also drops an open removal *)
OnHunk_ClosesOpen(st, hunk) ==
    [st EXCEPT !.changes = IF @ # <<>> /\ @[Len(@)].new = None
                           THEN SubSeq(@, 1, Len(@) - 1) ELSE @,
               !.old_line_no = hunk.old_start,
               !.new_line_no = hunk.new_start]

(* if hunk: both counters are set from the header *)
OnHunk(st, hunk) ==
    [st EXCEPT !.old_line_no = hunk.old_start, !.new_line_no = hunk.new_start]

(* line.startswith("-") branch *)
OnRemoval(st, line) ==
    IF st.old_line_no = NoLineNo THEN RaiseTypeError(st)
    ELSE
    [st EXCEPT
        !.changes = Append(@, [line |-> st.new_line_no, old |-> Content(line), new |-> None]),
        !.old_line_no = @ + 1]

(* changes and changes[-1]["new"] is None *)
LastIsOpen(changes) == changes # <<>> /\ changes[Len(changes)].new = None

(* mutant: an addition without an open removal is recorded as replacing "" *)
OnAddition_EmptyOld(st, line) ==
    IF st.new_line_no = NoLineNo THEN RaiseTypeError(st)
    ELSE
    [st EXCEPT
        !.changes =
            IF LastIsOpen(st.changes)
            THEN [@ EXCEPT ![Len(@)].new = Content(line)]
            ELSE Append(@, [line |-> st.new_line_no, old |-> <<>>, new |-> Content(line)]),
        !.new_line_no = @ + 1]

(* line.startswith("+") branch *)
OnAddition(st, line) ==
    IF st.new_line_no = NoLineNo THEN RaiseTypeError(st)
    ELSE
    [st EXCEPT
        !.changes =
            IF LastIsOpen(st.changes)
            THEN [@ EXCEPT ![Len(@)].new = Content(line)]
            ELSE Append(@, [line |-> st.new_line_no, old |-> None, new |-> Content(line)]),
        !.new_line_no = @ + 1]

(* mutant: a context line advances the old counter only *)
OnContext_OldOnly(st) ==
    IF st.old_line_no = NoLineNo \/ st.new_line_no = NoLineNo THEN RaiseTypeError(st)
    ELSE [st EXCEPT !.old_line_no = @ + 1]

(* mutant: a context line also drops an open removal *)
OnContext_ClosesOpen(st) ==
    IF st.old_line_no = NoLineNo \/ st.new_line_no = NoLineNo THEN RaiseTypeError(st)
    ELSE [st EXCEPT
             !.changes = IF LastIsOpen(@) THEN SubSeq(@, 1, Len(@) - 1) ELSE @,
             !.old_line_no = @ + 1,
             !.new_line_no = @ + 1]

(* else branch: a context line *)
OnContext(st) ==
    IF st.old_line_no = NoLineNo \/ st.new_line_no = NoLineNo THEN RaiseTypeError(st)
    ELSE [st EXCEPT !.old_line_no = @ + 1, !.new_line_no = @ + 1]

(* mutant: the loop goes on although a counter is unset *)
CountersUnset_Never(st) == FALSE

(* old_line_no is None or new_line_no is None *)
CountersUnset(st) == st.old_line_no = NoLineNo \/ st.new_line_no = NoLineNo

(* One iteration of "for line in lines". *)
ParseLine(st, line) ==
    LET hunk == HUNK_HEADER_RE(line) IN
    IF hunk.matched THEN OnHunk(st, hunk)
    ELSE IF IsMetadata(line) THEN st
    ELSE IF CountersUnset(st) THEN st
    ELSE IF StartsWith(line, <<"-">>) THEN OnRemoval(st, line)
    ELSE IF StartsWith(line, <<"+">>) THEN OnAddition(st, line)
    ELSE OnContext(st)

RECURSIVE ParseLoop(_, _)
ParseLoop(st, lines) ==
    IF lines = <<>> \/ st.raised # "" THEN st
    ELSE ParseLoop(ParseLine(st, Head(lines)), Tail(lines))

(* c["old"] is not None and c["new"] is not None *)
IsModification(c) == c.old # None /\ c.new # None

(* mutant: returns the accumulated list unfiltered *)
Modifications_Unfiltered(changes) == changes

(* mutant: returns the replacements last first *)
Modifications_Reversed(changes) ==
    LET m == SelectSeq(changes, IsModification) IN [k \in 1..Len(m) |-> m[Len(m) + 1 - k]]

(* modifications = [c for c in changes if ...] *)
Modifications(changes) == SelectSeq(changes, IsModification)

(* mutant: a file without a hunk header is rejected *)
parse_HunkRequired(text) ==
    IF IsBlankText(text) THEN EmptyDict
    ELSE LET lines == SplitLines(text)
             file_match == FileMatch(lines)
             loop == ParseLoop(LoopInit, lines)
         IN  IF ~file_match.matched THEN RaisedValueError
             ELSE IF \A i \in 1..Len(lines) : ~HUNK_HEADER_RE(lines[i]).matched
             THEN RaisedValueError
             ELSE IF loop.raised # "" THEN [kind |-> loop.raised, file |-> <<>>, changes |-> <<>>]
             ELSE [kind |-> "FileDiff",
                   file |-> FileName(file_match),
                   changes |-> Modifications(loop.changes)]

parse(text) ==
    IF IsBlankText(text) THEN EmptyDict
    ELSE LET lines == SplitLines(text)
             file_match == FileMatch(lines)
             loop == ParseLoop(LoopInit, lines)
         IN  IF ~file_match.matched THEN RaisedValueError
             ELSE IF loop.raised # "" THEN [kind |-> loop.raised, file |-> <<>>, changes |-> <<>>]
             ELSE [kind |-> "FileDiff",
                   file |-> FileName(file_match),
                   changes |-> Modifications(loop.changes)]

----------------------------------------------------------------------------
(* DiffParser.parse_multi_file_diff                                        *)
(*                                                                         *)
(* Its outcome is the list it returns.  An exception that its except       *)
(* clause does not catch ends the call: it is recorded as a last entry of  *)
(* that exception's kind, after which nothing is appended.                 *)

(* mutant: a ValueError discards what was collected so far *)
FlushFile_Abort(files, current_file_lines) ==
    IF current_file_lines = <<>> THEN files
    ELSE LET file_diff == parse(JoinLines(current_file_lines)) IN
         IF file_diff.kind = "FileDiff" THEN Append(files, file_diff)
         ELSE IF file_diff.kind = "ValueError" THEN <<>>
         ELSE files

(* mutant: a file without changes is not reported *)
FlushFile_ChangedOnly(files, current_file_lines) ==
    IF current_file_lines = <<>> THEN files
    ELSE LET file_diff == parse(JoinLines(current_file_lines)) IN
         IF file_diff.kind \in {"empty", "ValueError"} THEN files
         ELSE IF file_diff.kind = "FileDiff" /\ file_diff.changes = <<>> THEN files
         ELSE Append(files, file_diff)

(* try: file_diff = self.parse("\n".join(current_file_lines));             *)
(*      if file_diff: files.append(file_diff)                              *)
(* except ValueError: pass                                                 *)
FlushFile(files, current_file_lines) ==
    IF current_file_lines = <<>> THEN files
    ELSE LET file_diff == parse(JoinLines(current_file_lines)) IN
         IF file_diff.kind \in {"empty", "ValueError"} THEN files
         ELSE Append(files, file_diff)

(* an exception has left the call *)
Escaped(files) == files # <<>> /\ files[Len(files)].kind # "FileDiff"

(* mutant: the lines of the earlier files stay in current_file_lines *)
RECURSIVE MultiLoop_NoReset(_, _, _)
MultiLoop_NoReset(files, current_file_lines, lines) ==
    IF Escaped(files) THEN files
    ELSE IF lines = <<>> THEN FlushFile(files, current_file_lines)
    ELSE IF StartsWith(Head(lines), DiffGit)
         THEN MultiLoop_NoReset(FlushFile(files, current_file_lines),
                                Append(current_file_lines, Head(lines)), Tail(lines))
    ELSE MultiLoop_NoReset(files, Append(current_file_lines, Head(lines)), Tail(lines))

RECURSIVE MultiLoop(_, _, _)
MultiLoop(files, current_file_lines, lines) ==
    IF Escaped(files) THEN files
    ELSE IF lines = <<>> THEN FlushFile(files, current_file_lines)
    ELSE IF StartsWith(Head(lines), DiffGit)
         THEN MultiLoop(FlushFile(files, current_file_lines), <<Head(lines)>>, Tail(lines))
    ELSE MultiLoop(files, Append(current_file_lines, Head(lines)), Tail(lines))

(* mutant: the last entry is left out *)
parse_multi_file_diff_DropsLast(text) ==
    IF IsBlankText(text) THEN <<>>
    ELSE LET files == MultiLoop(<<>>, <<>>, SplitLines(text))
         IN  SubSeq(files, 1, Len(files) - 1)

parse_multi_file_diff(text) ==
    IF IsBlankText(text) THEN <<>> ELSE MultiLoop(<<>>, <<>>, SplitLines(text))

----------------------------------------------------------------------------
(* DiffParser.extract_file_chunks                                          *)

NoFile == <<>>

Unknown == <<"u", "n", "k", "n", "o", "w", "n">>

(* mutant: a chunk whose header did not parse is not emitted *)
FlushChunk_KnownOnly(chunks, current_chunk, current_file) ==
    IF current_chunk # <<>> /\ current_file # NoFile /\ current_file # Unknown
    THEN Append(chunks, [file |-> current_file, diff |-> JoinLines(current_chunk)])
    ELSE chunks

(* mutant: the chunk text is stripped *)
FlushChunk_Stripped(chunks, current_chunk, current_file) ==
    IF current_chunk # <<>> /\ current_file # NoFile
    THEN Append(chunks, [file |-> current_file, diff |-> Strip(JoinLines(current_chunk))])
    ELSE chunks

(* if current_chunk and current_file: chunks.append({...}) *)
FlushChunk(chunks, current_chunk, current_file) ==
    IF current_chunk # <<>> /\ current_file # NoFile
    THEN Append(chunks, [file |-> current_file, diff |-> JoinLines(current_chunk)])
    ELSE chunks

(* match.group(2) if match else "unknown" *)
ChunkFile(line) ==
    LET match == FILE_HEADER_RE(line) IN IF match.matched THEN match.file_b ELSE Unknown

(* mutant: a header that does not parse keeps the file of the chunk before *)
RECURSIVE ChunkLoop_KeepFile(_, _, _, _)
ChunkLoop_KeepFile(chunks, current_chunk, current_file, lines) ==
    IF lines = <<>> THEN FlushChunk(chunks, current_chunk, current_file)
    ELSE IF StartsWith(Head(lines), DiffGit)
         THEN ChunkLoop_KeepFile(FlushChunk(chunks, current_chunk, current_file),
                  <<Head(lines)>>,
                  IF FILE_HEADER_RE(Head(lines)).matched \/ current_file = NoFile
                  THEN ChunkFile(Head(lines)) ELSE current_file,
                  Tail(lines))
    ELSE ChunkLoop_KeepFile(chunks, Append(current_chunk, Head(lines)), current_file,
                            Tail(lines))

RECURSIVE ChunkLoop(_, _, _, _)
ChunkLoop(chunks, current_chunk, current_file, lines) ==
    IF lines = <<>> THEN FlushChunk(chunks, current_chunk, current_file)
    ELSE IF StartsWith(Head(lines), DiffGit)
         THEN ChunkLoop(FlushChunk(chunks, current_chunk, current_file),
                        <<Head(lines)>>, ChunkFile(Head(lines)), Tail(lines))
    ELSE ChunkLoop(chunks, Append(current_chunk, Head(lines)), current_file, Tail(lines))

extract_file_chunks(text) ==
    IF IsBlankText(text) THEN <<>> ELSE ChunkLoop(<<>>, <<>>, NoFile, SplitLines(text))

----------------------------------------------------------------------------
(* Input lines.                                                            *)

HeaderXY == DiffGit \o <<" ", "a", "/", "x", " ", "b", "/", "y">>

HeaderZZ == DiffGit \o <<" ", "a", "/", "z", " ", "b", "/", "z">>

(* both paths begin with "b/": diff --git a/b/x b/b/y *)
HeaderDeep == DiffGit \o <<" ", "a", "/", "b", "/", "x", " ", "b", "/", "b", "/", "y">>

(* begins with "diff --git" but does not match FILE_HEADER_RE *)
HeaderBad == DiffGit \o <<" ", "a", "/", "x">>

(* @@ -3,1 +1,2 @@ *)
HunkA == <<"@", "@", " ", "-", "3", ",", "1", " ", "+", "1", ",", "2", " ", "@", "@">>

(* @@ -1,1 +0,1 @@ *)
HunkZ == <<"@", "@", " ", "-", "1", ",", "1", " ", "+", "0", ",", "1", " ", "@", "@">>

(* @@ -2,3 +12,3 @@ *)
HunkB == <<"@", "@", " ", "-", "2", ",", "3", " ", "+", "1", "2", ",", "3", " ", "@", "@">>

BlankLine == <<>>

CtxLine == <<" ">>

TextLine == <<"x">>

RemA == <<"-", "a">>

RemB == <<"-", " ", "b">>

AddC == <<"+", "c">>

AddD == <<"+", " ", "d">>

(* --- a/x *)
OldFile == <<"-", "-", "-", " ", "a", "/", "x">>

(* +++ b/y *)
NewFile == <<"+", "+", "+", " ", "b", "/", "y">>

(* index 1..2 *)
IndexLine == <<"i", "n", "d", "e", "x", " ", "1", ".", ".", "2">>

(* the short form, without lengths: @@ -1 +1 @@ *)
ShortHunk == <<"@", "@", " ", "-", "1", " ", "+", "1", " ", "@", "@">>

LineSet == {BlankLine, CtxLine, TextLine, HeaderXY, HeaderBad, HunkA, RemA, AddC}

BodyLines == {HunkA, HunkZ, CtxLine, RemA, RemB, AddC, AddD}

FileLines == {HunkA, CtxLine, AddC, AddD, RemA}

PairLines == {HunkA, HunkZ, CtxLine, RemA, RemB, AddC}

MetaLines == {HunkA, ShortHunk, CtxLine, RemA, AddC, OldFile, NewFile, IndexLine, HeaderXY}

SegSet ==
    { <<TextLine>>, <<BlankLine>>,
      <<HeaderBad>>, <<HeaderBad, HunkA, RemA, AddC>>,
      <<HeaderXY>>, <<HeaderXY, HunkA, RemA, AddC>>,
      <<HeaderZZ, HunkB, CtxLine, RemB, AddD, BlankLine>>,
      <<HeaderDeep, HunkA, AddC>>,
      <<HeaderXY, HunkA, CtxLine, RemA>> }

SeqsUpTo(S, n) == UNION {[1..k -> S] : k \in 0..n}

RECURSIVE Flatten(_)
Flatten(ss) == IF ss = <<>> THEN <<>> ELSE Head(ss) \o Flatten(Tail(ss))

(* any text of up to MaxLines lines *)
TextInputs == {JoinLines(ls) : ls \in SeqsUpTo(LineSet, MaxLines)}

(* one file: its header, then up to MaxBody hunk lines *)
HunkInputs == {JoinLines(<<HeaderXY>> \o body) : body \in SeqsUpTo(BodyLines, MaxBody)}

(* one file, given to each of the three methods *)
FileInputs == {JoinLines(<<HeaderXY>> \o body) : body \in SeqsUpTo(FileLines, MaxBody)}

(* one file: its header, then up to MaxPair lines of hunks *)
PairInputs == {JoinLines(<<HeaderXY>> \o body) : body \in SeqsUpTo(PairLines, MaxPair)}

(* one file: its header, then up to MaxMeta lines, metadata among them *)
MetaInputs == {JoinLines(<<HeaderXY>> \o body) : body \in SeqsUpTo(MetaLines, MaxMeta)}

(* up to MaxSegs whole segments, one after the other *)
MultiInputs == {JoinLines(Flatten(segs)) : segs \in SeqsUpTo(SegSet, MaxSegs)}

----------------------------------------------------------------------------
(* The calls.  A caller holds one diff_text and calls one of the methods.  *)

(* no function is decorated: the limiter is not in use *)
NoLimiter ==
    /\ max_calls = 1
    /\ period = 1
    /\ calls = <<>>
    /\ now = 0
    /\ started = <<>>

(* Config before any environment variable is read *)
NoConfig == [REVIEWER_PROVIDER |-> <<>>, GEMINI_API_KEY |-> <<>>, OPENAI_LIKE_API_KEY |-> <<>>]

InitWith(inputs) ==
    /\ diff_text \in inputs
    /\ file_name = <<>>
    /\ file_list = <<>>
    /\ config = NoConfig
    /\ op = "none"
    /\ result = <<>>
    /\ NoLimiter

Init == InitWith(TextInputs)

InitHunk == InitWith(HunkInputs)

InitMulti == InitWith(MultiInputs)

InitFile == InitWith(FileInputs)

InitMeta == InitWith(MetaInputs)

InitPair == InitWith(PairInputs)

CallParse ==
    /\ op = "none"
    /\ op' = "parse"
    /\ result' = parse(diff_text)
    /\ UNCHANGED <<args, limiter>>

CallParseMulti ==
    /\ op = "none"
    /\ op' = "parse_multi_file_diff"
    /\ result' = parse_multi_file_diff(diff_text)
    /\ UNCHANGED <<args, limiter>>

CallExtract ==
    /\ op = "none"
    /\ op' = "extract_file_chunks"
    /\ result' = extract_file_chunks(diff_text)
    /\ UNCHANGED <<args, limiter>>

Next == CallParse \/ CallParseMulti \/ CallExtract

Spec == Init /\ [][Next]_vars

NextParse == CallParse

SpecHunk == InitHunk /\ [][NextParse]_vars

SpecMulti == InitMulti /\ [][Next]_vars

SpecFile == InitFile /\ [][Next]_vars

SpecMeta == InitMeta /\ [][NextParse]_vars

SpecPair == InitPair /\ [][NextParse]_vars

-----------------------------------------------------------------------------
(* FileClassifier (src/src/parsers/file_classifier.py).                    *)

(* self.file_types, in the order of the dict *)
file_types ==
    << [type |-> "python",     extensions |-> <<<<".", "p", "y">>>>],
       [type |-> "markdown",   extensions |-> <<<<".", "m", "d">>>>],
       [type |-> "text",       extensions |-> <<<<".", "t", "x", "t">>>>],
       [type |-> "javascript", extensions |-> <<<<".", "j", "s">>>>],
       [type |-> "html",       extensions |-> <<<<".", "h", "t", "m", "l">>>>],
       [type |-> "css",        extensions |-> <<<<".", "c", "s", "s">>>>],
       [type |-> "json",       extensions |-> <<<<".", "j", "s", "o", "n">>>>],
       [type |-> "xml",        extensions |-> <<<<".", "x", "m", "l">>>>],
       [type |-> "other",      extensions |-> <<>>] >>

(* sep in s *)
Contains(s, sep) == \E i \in 1..Len(s) : s[i] = sep

(* s.split(sep), sep one character *)
RECURSIVE StrSplit(_, _)
StrSplit(s, sep) ==
    IF ~Contains(s, sep) THEN <<s>>
    ELSE LET i == CHOOSE j \in 1..Len(s) :
                      s[j] = sep /\ \A k \in 1..(j - 1) : s[k] # sep
         IN  <<SubSeq(s, 1, i - 1)>> \o StrSplit(SubSeq(s, i + 1, Len(s)), sep)

get_file_extension(name) ==
    IF Contains(name, ".")
    THEN LET parts == StrSplit(name, ".") IN parts[Len(parts)]
    ELSE <<>>

InList(x, list) == \E i \in 1..Len(list) : list[i] = x

classify_file(name) ==
    LET extension == get_file_extension(name)
        hits == {i \in 1..Len(file_types) : InList(extension, file_types[i].extensions)}
    IN  IF hits = {} THEN "other"
        ELSE file_types[CHOOSE i \in hits : \A j \in hits : i <= j].type

(* classified_files is a dict: file type -> list of names *)
RECURSIVE ClassifyLoop(_, _)
ClassifyLoop(classified_files, files) ==
    IF files = <<>> THEN classified_files
    ELSE LET file == Head(files)
             file_type == classify_file(file)
             known == IF file_type \in DOMAIN classified_files
                      THEN classified_files
                      ELSE classified_files @@ (file_type :> <<>>)
         IN  ClassifyLoop([known EXCEPT ![file_type] = Append(@, file)], Tail(files))

classify_files(files) == ClassifyLoop(<<>>, files)

(* file names: those of the tests *)
Name_a_py == <<"a", ".", "p", "y">>

Name_A_PY == <<"A", ".", "P", "Y">>

Name_module_ts == <<"f", "o", "l", "d", "e", "r", "/", "n", "a", "m", "e", ".", "m", "o", "d", "u", "l", "e", ".", "t", "s">>

Name_no_ext == <<"n", "o", "_", "e", "x", "t">>

Name_gitignore == <<".", "g", "i", "t", "i", "g", "n", "o", "r", "e">>

Name_app_py == <<"a", "p", "p", ".", "p", "y">>

Name_readme_MD == <<"r", "e", "a", "d", "m", "e", ".", "M", "D">>

Name_README_md == <<"R", "E", "A", "D", "M", "E", ".", "m", "d">>

Name_script_js == <<"s", "c", "r", "i", "p", "t", ".", "j", "s">>

Name_notes_txt == <<"n", "o", "t", "e", "s", ".", "t", "x", "t">>

Name_index_html == <<"i", "n", "d", "e", "x", ".", "h", "t", "m", "l">>

Name_styles_css == <<"s", "t", "y", "l", "e", "s", ".", "c", "s", "s">>

Name_schema_json == <<"s", "c", "h", "e", "m", "a", ".", "j", "s", "o", "n">>

Name_layout_xml == <<"l", "a", "y", "o", "u", "t", ".", "x", "m", "l">>

Name_Dockerfile == <<"D", "o", "c", "k", "e", "r", "f", "i", "l", "e">>

Name_archive_zip == <<"a", "r", "c", "h", "i", "v", "e", ".", "z", "i", "p">>

Name_unknown_bin == <<"u", "n", "k", "n", "o", "w", "n", ".", "b", "i", "n">>

FileNames ==
    {Name_a_py,
     Name_A_PY,
     Name_module_ts,
     Name_no_ext,
     Name_gitignore,
     Name_app_py,
     Name_readme_MD,
     Name_README_md,
     Name_script_js,
     Name_notes_txt,
     Name_index_html,
     Name_styles_css,
     Name_schema_json,
     Name_layout_xml,
     Name_Dockerfile,
     Name_archive_zip,
     Name_unknown_bin}

(* the names of the grouping test *)
ListNames ==
    {Name_app_py, Name_README_md, Name_script_js, Name_notes_txt, Name_index_html, Name_unknown_bin}

InitClassifier ==
    /\ diff_text = <<>>
    /\ file_name \in FileNames
    /\ file_list \in SeqsUpTo(ListNames, MaxFiles)
    /\ config = NoConfig
    /\ op = "none"
    /\ result = <<>>
    /\ NoLimiter

CallGetFileExtension ==
    /\ op = "none"
    /\ op' = "get_file_extension"
    /\ result' = get_file_extension(file_name)
    /\ UNCHANGED <<args, limiter>>

CallClassifyFile ==
    /\ op = "none"
    /\ op' = "classify_file"
    /\ result' = classify_file(file_name)
    /\ UNCHANGED <<args, limiter>>

CallClassifyFiles ==
    /\ op = "none"
    /\ op' = "classify_files"
    /\ result' = classify_files(file_list)
    /\ UNCHANGED <<args, limiter>>

NextClassifier == CallGetFileExtension \/ CallClassifyFile \/ CallClassifyFiles

SpecClassifier == InitClassifier /\ [][NextClassifier]_vars

-----------------------------------------------------------------------------
(* ReviewerFactory (src/src/reviewers/reviewer_factory.py) over the Config *)
(* attributes it reads.                                                    *)

UpperCase == <<"A", "B", "C", "D", "E", "F", "G", "H", "I", "J", "K", "L", "M", "N", "O", "P", "Q", "R", "S", "T", "U", "V", "W", "X", "Y", "Z">>

LowerCase == <<"a", "b", "c", "d", "e", "f", "g", "h", "i", "j", "k", "l", "m", "n", "o", "p", "q", "r", "s", "t", "u", "v", "w", "x", "y", "z">>

LowerChar(c) ==
    IF \E i \in 1..Len(UpperCase) : UpperCase[i] = c
    THEN LowerCase[CHOOSE i \in 1..Len(UpperCase) : UpperCase[i] = c]
    ELSE c

(* str.lower() *)
Lower(s) == [i \in 1..Len(s) |-> LowerChar(s[i])]

Gemini == <<"g", "e", "m", "i", "n", "i">>

OpenAILike == <<"o", "p", "e", "n", "a", "i", "_", "l", "i", "k", "e">>

(* bool(s) of a str *)
Truthy(s) == s # <<>>

(* self._client = None: a reviewer built without a client *)
NoClient == [api_key |-> None]

(* GeminiReviewer.__init__: enable_ai and the client, which holds the key *)
GeminiReviewer(cfg) ==
    LET enable_ai == Truthy(cfg.GEMINI_API_KEY)
    IN  [class |-> "GeminiReviewer", enable_ai |-> enable_ai,
         client |-> IF enable_ai THEN [api_key |-> cfg.GEMINI_API_KEY] ELSE NoClient]

OpenAILikeReviewer(cfg) ==
    LET enable_ai == Truthy(cfg.OPENAI_LIKE_API_KEY)
    IN  [class |-> "OpenAILikeReviewer", enable_ai |-> enable_ai,
         client |-> IF enable_ai THEN [api_key |-> cfg.OPENAI_LIKE_API_KEY] ELSE NoClient]

is_available(reviewer) ==
    IF reviewer.class = "GeminiReviewer"
    THEN reviewer.enable_ai /\ reviewer.client # NoClient
    ELSE reviewer.enable_ai /\ reviewer.client # NoClient /\ Truthy(reviewer.client.api_key)

NoReviewerAvailable == [class |-> "ValueError", enable_ai |-> FALSE, client |-> NoClient]

(* mutant: tries the OpenAI-like reviewer first *)
Fallback_OpenAIFirst(cfg) ==
    IF is_available(OpenAILikeReviewer(cfg)) THEN OpenAILikeReviewer(cfg)
    ELSE IF is_available(GeminiReviewer(cfg)) THEN GeminiReviewer(cfg)
    ELSE NoReviewerAvailable

(* "Attempting to use any available reviewer..." *)
Fallback(cfg) ==
    IF is_available(GeminiReviewer(cfg)) THEN GeminiReviewer(cfg)
    ELSE IF is_available(OpenAILikeReviewer(cfg)) THEN OpenAILikeReviewer(cfg)
    ELSE NoReviewerAvailable

create_reviewer(cfg) ==
    LET provider == Lower(cfg.REVIEWER_PROVIDER)
    IN  IF provider = Gemini /\ is_available(GeminiReviewer(cfg))
        THEN GeminiReviewer(cfg)
        ELSE IF provider = OpenAILike /\ is_available(OpenAILikeReviewer(cfg))
        THEN OpenAILikeReviewer(cfg)
        ELSE Fallback(cfg)

get_available_providers(cfg) ==
    (IF Truthy(cfg.GEMINI_API_KEY) THEN <<Gemini>> ELSE <<>>)
        \o (IF Truthy(cfg.OPENAI_LIKE_API_KEY) THEN <<OpenAILike>> ELSE <<>>)

validate_configuration(cfg) ==
    LET available_providers == get_available_providers(cfg)
        configured_provider == Lower(cfg.REVIEWER_PROVIDER)
        start == [valid |-> FALSE, errors |-> <<>>, warnings |-> <<>>,
                  available_providers |-> available_providers,
                  configured_provider |-> configured_provider]
        warnings ==
            (IF configured_provider \notin {Gemini, OpenAILike}
             THEN <<"Unknown provider, fallback will be used">> ELSE <<>>)
            \o (IF configured_provider = Gemini /\ ~InList(Gemini, available_providers)
                THEN <<"Gemini selected, but GEMINI_API_KEY is not configured">> ELSE <<>>)
            \o (IF configured_provider = OpenAILike /\ ~InList(OpenAILike, available_providers)
                THEN <<"OpenAI-Like selected, but OPENAI_LIKE_API_KEY is not configured">>
                ELSE <<>>)
    IN  IF available_providers = <<>>
        THEN [start EXCEPT !.errors = <<"No AI provider configured">>]
        ELSE [start EXCEPT !.warnings = warnings, !.valid = TRUE]

(* values of REVIEWER_PROVIDER *)
Provider_gemini == <<"g", "e", "m", "i", "n", "i">>

Provider_Gemini == <<"G", "e", "m", "i", "n", "i">>

Provider_GEMINI == <<"G", "E", "M", "I", "N", "I">>

Provider_openai_like == <<"o", "p", "e", "n", "a", "i", "_", "l", "i", "k", "e">>

Provider_OpenAI_Like == <<"O", "p", "e", "n", "A", "I", "_", "L", "i", "k", "e">>

Provider_openai == <<"o", "p", "e", "n", "a", "i">>

Provider_unset == <<>>

ProviderValues ==
    {Provider_gemini, Provider_Gemini, Provider_GEMINI, Provider_openai_like,
     Provider_OpenAI_Like, Provider_openai, Provider_unset}

(* values of an API key: not set, or set *)
KeyValues == {<<>>, <<"k">>, <<"s", "k">>}

Configs ==
    [REVIEWER_PROVIDER : ProviderValues, GEMINI_API_KEY : KeyValues,
     OPENAI_LIKE_API_KEY : KeyValues]

InitFactory ==
    /\ diff_text = <<>>
    /\ file_name = <<>>
    /\ file_list = <<>>
    /\ config \in Configs
    /\ op = "none"
    /\ result = <<>>
    /\ NoLimiter

CallCreateReviewer ==
    /\ op = "none"
    /\ op' = "create_reviewer"
    /\ result' = create_reviewer(config)
    /\ UNCHANGED <<args, limiter>>

CallGetAvailableProviders ==
    /\ op = "none"
    /\ op' = "get_available_providers"
    /\ result' = get_available_providers(config)
    /\ UNCHANGED <<args, limiter>>

CallValidateConfiguration ==
    /\ op = "none"
    /\ op' = "validate_configuration"
    /\ result' = validate_configuration(config)
    /\ UNCHANGED <<args, limiter>>

NextFactory == CallCreateReviewer \/ CallGetAvailableProviders \/ CallValidateConfiguration

SpecFactory == InitFactory /\ [][NextFactory]_vars

-----------------------------------------------------------------------------
(* rate_limit_decorator (src/src/utils/rate_limit.py).  One action is one  *)
(* call of the wrapper, its sleep included; time() is the clock now, which *)
(* also advances between calls.                                            *)

(* while calls and calls[0] < current_time - period: calls.popleft() *)
RECURSIVE PopExpired(_, _, _)
PopExpired(q, current_time, p) ==
    IF q # <<>> /\ Head(q) < current_time - p THEN PopExpired(Tail(q), current_time, p)
    ELSE q

InitLimiter ==
    /\ diff_text = <<>>
    /\ file_name = <<>>
    /\ file_list = <<>>
    /\ config = NoConfig
    /\ op = "none"
    /\ result = <<>>
    /\ max_calls \in 1..MaxCalls
    /\ period \in 1..MaxPeriod
    /\ calls = <<>>
    /\ now = 0
    /\ started = <<>>

(* time passes between two calls *)
Tick ==
    /\ now < MaxTime
    /\ now' = now + 1
    /\ UNCHANGED <<args, op, result, max_calls, period, calls, started>>

(* one call of wrapper; sleep returns at the requested time or up to       *)
(* MaxLate later                                                           *)
Wrapper ==
    /\ Len(started) < MaxStarted
    /\ LET current_time == now
           kept == PopExpired(calls, current_time, period)
       IN  IF Len(kept) < max_calls
           THEN /\ calls' = Append(kept, current_time)
                /\ started' = Append(started, current_time)
                /\ now' = now
           ELSE LET sleep_time == period - (current_time - kept[1]) IN
                \E late \in 0..MaxLate :
                    /\ now' = current_time + sleep_time + late
                    /\ calls' = Append(kept, now')
                    /\ started' = Append(started, now')
    /\ UNCHANGED <<args, op, result, max_calls, period>>

NextLimiter == Tick \/ Wrapper

SpecLimiter == InitLimiter /\ [][NextLimiter]_vars

----------------------------------------------------------------------------
(* What the inputs are, stated without the parser: the values written in   *)
(* each input line.                                                        *)

NewStartOf == (HunkA :> 1) @@ (HunkZ :> 0) @@ (HunkB :> 12)

PayloadOf ==
    (RemA :> <<"a">>) @@ (RemB :> <<" ", "b">>) @@ (AddC :> <<"c">>) @@ (AddD :> <<" ", "d">>)

NewPathOf ==
    (HeaderXY :> <<"y">>) @@ (HeaderZZ :> <<"z">>) @@ (HeaderDeep :> <<"b", "/", "y">>)

Removals == {RemA, RemB}

Additions == {AddC, AddD}

Ctx(k) == [i \in 1..k |-> CtxLine]

Parsed == op = "parse"

ReturnedFileDiff == Parsed /\ result.kind = "FileDiff"

(* the text is exactly these lines *)
TextIs(ls) == diff_text = JoinLines(ls)

AllBlankChars == \A i \in 1..Len(diff_text) : diff_text[i] \in {" ", NL, "\t"}

InputLines == SplitLines(diff_text)

IsBlankLine(l) == \A i \in 1..Len(l) : l[i] \in {" ", "\t"}

(* the first line that is not blank; <<>> when there is none *)
FirstContentLine ==
    LET idx == {i \in 1..Len(InputLines) : ~IsBlankLine(InputLines[i])} IN
    IF idx = {} THEN <<>>
    ELSE InputLines[CHOOSE i \in idx : \A j \in idx : i <= j]

----------------------------------------------------------------------------
(* C1: every change parse returns has both old and new present; pure       *)
(* insertions and pure deletions never appear in the returned changes.     *)
C1_OnlyReplacements ==
    ReturnedFileDiff =>
        \A i \in 1..Len(result.changes) :
            result.changes[i].old # None /\ result.changes[i].new # None

(* an addition with no open removal and a removal never filled were both   *)
(* accumulated, next to one replacement, and only the replacement is left  *)
C1_Witness ==
    /\ Parsed
    /\ TextIs(<<HeaderXY, HunkA, AddC, RemA, AddD, RemB>>)
    /\ Len(result.changes) = 1

(* the inputs of that shape, each with the result claimed for it *)
C2_Cases ==
    { [text |-> JoinLines(<<HeaderXY, c[1]>> \o Ctx(c[2]) \o <<c[3], c[4]>>),
       expected |-> [kind |-> "FileDiff", file |-> <<"y">>,
                     changes |-> << [line |-> NewStartOf[c[1]] + c[2],
                                     old |-> PayloadOf[c[3]],
                                     new |-> PayloadOf[c[4]]] >>]] :
      c \in {HunkA, HunkZ} \X (0..(MaxBody - 3)) \X Removals \X Additions }

(* C2: header, one hunk header @@ -s,a +t,b @@, k context lines, -X, +Y    *)
(* gives exactly one change {line: t+k, old: X, new: Y}, X and Y keeping   *)
(* their leading whitespace.                                               *)
C2_SingleReplacement ==
    Parsed => \A c \in C2_Cases : diff_text = c.text => result = c.expected

C2_Witness ==
    /\ Parsed
    /\ TextIs(<<HeaderXY, HunkA, CtxLine, CtxLine, RemB, AddD>>)
    /\ result.changes = << [line |-> 3, old |-> <<" ", "b">>, new |-> <<" ", "d">>] >>

(* C3, as claimed: m >= 2 removals followed by m additions pair            *)
(* positionally, the i-th removal with the i-th addition, m replacements.  *)
C3_PositionalPairing ==
    \A hunk \in {HunkA, HunkZ}, r1 \in Removals, r2 \in Removals,
       a1 \in Additions, a2 \in Additions :
        (Parsed /\ TextIs(<<HeaderXY, hunk, r1, r2, a1, a2>>)) =>
            /\ Len(result.changes) = 2
            /\ result.changes[1].old = PayloadOf[r1]
            /\ result.changes[1].new = PayloadOf[a1]
            /\ result.changes[2].old = PayloadOf[r2]
            /\ result.changes[2].new = PayloadOf[a2]

(* C4, as claimed: k >= 2 removals followed by one addition give exactly   *)
(* one change, whose old is the content of the first removal.              *)
C4_FirstRemovalPaired ==
    \A hunk \in {HunkA, HunkZ}, r1 \in Removals, r2 \in Removals, r3 \in Removals,
       add \in Additions :
        /\ (Parsed /\ TextIs(<<HeaderXY, hunk, r1, r2, add>>)) =>
               (Len(result.changes) = 1 /\ result.changes[1].old = PayloadOf[r1])
        /\ (Parsed /\ TextIs(<<HeaderXY, hunk, r1, r2, r3, add>>)) =>
               (Len(result.changes) = 1 /\ result.changes[1].old = PayloadOf[r1])

(* C5, as claimed: when the text is not blank and its first non-blank line *)
(* is a valid file header, parse returns a FileDiff and does not raise.    *)
C5_LeadingBlankLinesAccepted ==
    (Parsed /\ ~AllBlankChars /\ FirstContentLine \in DOMAIN NewPathOf) =>
        result.kind = "FileDiff"

(* C6: when the text is not blank and its first non-blank line is not a    *)
(* valid file header, parse raises ValueError and returns nothing.         *)
C6_BadHeaderRaises ==
    (Parsed /\ ~AllBlankChars /\ FirstContentLine \notin DOMAIN NewPathOf) =>
        result = RaisedValueError

(* a header that begins with "diff --git" but lacks the b/ part *)
C6_Witness ==
    /\ Parsed
    /\ TextIs(<<HeaderBad, HunkA, RemA, AddC>>)
    /\ result.kind = "ValueError"

(* C7: for an empty or whitespace-only text parse returns {} and           *)
(* parse_multi_file_diff and extract_file_chunks return [], none raising.  *)
C7_BlankTextIsNoOp ==
    AllBlankChars =>
        /\ op = "parse" => result = EmptyDict
        /\ op = "parse_multi_file_diff" => result = <<>>
        /\ op = "extract_file_chunks" => result = <<>>

C7_Witness ==
    /\ Parsed
    /\ diff_text = <<" ", NL, NL, " ">>
    /\ result = EmptyDict

(* C8: a returned FileDiff has a non-empty file, the <newPath> of the      *)
(* header line, not its <oldPath>.                                         *)
C8_FileIsNewPath ==
    ReturnedFileDiff =>
        /\ result.file # <<>>
        /\ \E h \in DOMAIN NewPathOf :
              /\ diff_text = h \/ StartsWith(diff_text, h \o <<NL>>)
              /\ result.file = NewPathOf[h]

C8_Witness ==
    /\ Parsed
    /\ TextIs(<<HeaderXY, HunkA, RemA, AddC>>)
    /\ result.file = <<"y">>

(* C9, as claimed: every returned change has line >= 1, whatever start     *)
(* values the hunk headers carry.                                          *)
C9_LineAtLeastOne ==
    ReturnedFileDiff => \A i \in 1..Len(result.changes) : result.changes[i].line >= 1

(* C9, amended: when every hunk header of the input has a new-start value  *)
(* of at least 1, every returned change has line >= 1.                     *)
C9_LineAtLeastOneFromPositiveStarts ==
    ReturnedFileDiff =>
        \/ \A i \in 1..Len(result.changes) : result.changes[i].line >= 1
        \/ \E j \in 1..Len(InputLines) :
              InputLines[j] \in DOMAIN NewStartOf /\ NewStartOf[InputLines[j]] < 1

C9_Witness ==
    /\ Parsed
    /\ TextIs(<<HeaderXY, HunkA, RemA, AddC>>)
    /\ Len(result.changes) = 1
    /\ result.changes[1].line = 1

----------------------------------------------------------------------------
(* The segments of the input, stated without the loops: a segment starts   *)
(* at each line that begins with "diff --git" (and at line 1, for the      *)
(* lines before the first such line) and runs up to the next such line.    *)

HeaderIdx(lines) == {i \in 1..Len(lines) : StartsWith(lines[i], DiffGit)}

SegStarts(lines, heads) == heads \cup (IF lines # <<>> /\ 1 \notin heads THEN {1} ELSE {})

SegEnd(lines, heads, i) ==
    LET later == {j \in heads : j > i} IN
    IF later = {} THEN Len(lines)
    ELSE (CHOOSE j \in later : \A k \in later : j <= k) - 1

RECURSIVE Ascending(_)
Ascending(S) ==
    IF S = {} THEN <<>>
    ELSE LET m == CHOOSE x \in S : \A y \in S : x <= y IN <<m>> \o Ascending(S \ {m})

SegmentsOf(lines) ==
    LET heads == HeaderIdx(lines)
        starts == Ascending(SegStarts(lines, heads))
    IN  [k \in 1..Len(starts) |-> SubSeq(lines, starts[k], SegEnd(lines, heads, starts[k]))]

Segments == SegmentsOf(InputLines)

SegmentResults ==
    LET segs == Segments IN [k \in 1..Len(segs) |-> parse(JoinLines(segs[k]))]

IsFileDiff(r) == r.kind = "FileDiff"

(* C10: in parse_multi_file_diff a segment on which parse raises is        *)
(* dropped without aborting: the result is the FileDiff of every segment   *)
(* parse accepts, in input order, before and after the failing ones.       *)
C10_FailingSegmentDropped ==
    op = "parse_multi_file_diff" => result = SelectSeq(SegmentResults, IsFileDiff)

(* a failing segment between two accepted ones *)
C10_Witness ==
    /\ op = "parse_multi_file_diff"
    /\ TextIs(<<HeaderXY, HunkA, RemA, AddC>> \o <<HeaderBad, HunkA, RemA, AddC>>
              \o <<HeaderZZ, HunkB, CtxLine, RemB, AddD, BlankLine>>)
    /\ SegmentResults[2].kind = "ValueError"
    /\ Len(result) = 2
    /\ result[1].file = <<"y">>
    /\ result[2] = [kind |-> "FileDiff", file |-> <<"z">>,
                    changes |-> << [line |-> 13, old |-> <<" ", "b">>, new |-> <<" ", "d">>] >>]

----------------------------------------------------------------------------
(* The header lines of the input and the segments they start, stated       *)
(* without the loops (the lines before the first header are left out).     *)

Heads == Ascending(HeaderIdx(InputLines))

HeaderSegmentsOf(lines) ==
    LET heads == HeaderIdx(lines)
        starts == Ascending(heads)
    IN  [k \in 1..Len(starts) |-> SubSeq(lines, starts[k], SegEnd(lines, heads, starts[k]))]

LineCount(text) == Cardinality({i \in 1..Len(text) : text[i] = NL}) + 1

FirstLineOf(text) ==
    LET breaks == {i \in 1..Len(text) : text[i] = NL} IN
    IF breaks = {} THEN text
    ELSE SubSeq(text, 1, (CHOOSE b \in breaks : \A c \in breaks : b <= c) - 1)

(* the segments of SegSet that are one well-formed single-file diff *)
SingleFileDiffs == {seg \in SegSet : seg[1] \in DOMAIN NewPathOf}

(* A followed by B, with the result claimed for it *)
C11_Cases ==
    { [text |-> JoinLines(c[1] \o c[2]),
       expected |-> <<parse(JoinLines(c[1])), parse(JoinLines(c[2]))>>] :
      c \in SingleFileDiffs \X SingleFileDiffs }

(* C11: for single-file diffs A and B, parse_multi_file_diff of A followed *)
(* by B returns [parse(A), parse(B)]: neither the counters nor an open     *)
(* removal of A carry over into B.                                         *)
C11_MultiIsParsePerFile ==
    op = "parse_multi_file_diff" =>
        \A c \in C11_Cases : diff_text = c.text => result = c.expected

(* A ends with an open removal and B begins with an addition *)
C11_Witness ==
    /\ op = "parse_multi_file_diff"
    /\ TextIs(<<HeaderXY, HunkA, CtxLine, RemA>> \o <<HeaderDeep, HunkA, AddC>>)
    /\ result = << [kind |-> "FileDiff", file |-> <<"y">>, changes |-> <<>>],
                   [kind |-> "FileDiff", file |-> <<"b", "/", "y">>, changes |-> <<>>] >>

(* C12: extract_file_chunks returns exactly one chunk per line beginning   *)
(* with "diff --git", in input order, also for a header that does not      *)
(* parse; the lines before the first such line belong to no chunk.         *)
C12_OneChunkPerHeader ==
    op = "extract_file_chunks" =>
        LET lines == InputLines
            heads == Ascending(HeaderIdx(lines))
        IN  /\ Len(result) = Len(heads)
            /\ \A k \in 1..Len(heads) :
                  /\ FirstLineOf(result[k].diff) = lines[heads[k]]
                  /\ LineCount(result[k].diff) =
                        (IF k < Len(heads) THEN heads[k + 1] ELSE Len(lines) + 1) - heads[k]

(* lines before the first header, then a header that does not parse *)
C12_Witness ==
    /\ op = "extract_file_chunks"
    /\ TextIs(<<TextLine>> \o <<HeaderBad, HunkA, RemA, AddC>> \o <<HeaderXY>>)
    /\ Len(result) = 2
    /\ result[1].diff = JoinLines(<<HeaderBad, HunkA, RemA, AddC>>)

(* C13: parse_multi_file_diff returns at most N FileDiffs for N lines      *)
(* beginning with "diff --git", and fewer than N exactly when one of those *)
(* header lines does not match the file-header pattern.                    *)
C13_AtMostOnePerHeader ==
    op = "parse_multi_file_diff" =>
        LET lines == InputLines
            heads == HeaderIdx(lines)
        IN  /\ Len(result) <= Cardinality(heads)
            /\ (Len(result) < Cardinality(heads)) <=>
                  (\E i \in heads : lines[i] \notin DOMAIN NewPathOf)

(* three headers, one of them malformed, and a file without changes *)
C13_Witness ==
    /\ op = "parse_multi_file_diff"
    /\ TextIs(<<HeaderXY>> \o <<HeaderBad>> \o <<HeaderDeep, HunkA, AddC>>)
    /\ Len(result) = 2

(* C14: each chunk's diff is the raw text of one segment, from its header  *)
(* line up to the line before the next header, and the chunks in order     *)
(* make up the input's lines from the first header line to the end.        *)
C14_ChunksAreRawSegments ==
    op = "extract_file_chunks" =>
        LET lines == InputLines
            segs == HeaderSegmentsOf(lines)
        IN  /\ Len(result) = Len(segs)
            /\ \A k \in 1..Len(segs) : result[k].diff = JoinLines(segs[k])
            /\ segs # <<>> =>
                  JoinLines([k \in 1..Len(result) |-> result[k].diff]) =
                  JoinLines(SubSeq(lines, Heads[1], Len(lines)))

(* a chunk that ends with a blank line, between two others *)
C14_Witness ==
    /\ op = "extract_file_chunks"
    /\ TextIs(<<HeaderXY, HunkA, RemA, AddC>>
              \o <<HeaderZZ, HunkB, CtxLine, RemB, AddD, BlankLine>> \o <<HeaderBad>>)
    /\ Len(result) = 3
    /\ result[2].diff = JoinLines(<<HeaderZZ, HunkB, CtxLine, RemB, AddD, BlankLine>>)

(* C15: each chunk's file is the <newPath> of its own header line when the *)
(* line matches the file-header pattern and "unknown" when it does not;    *)
(* it is never empty and never the file of a neighbouring segment.         *)
C15_ChunkFileFromOwnHeader ==
    op = "extract_file_chunks" =>
        LET lines == InputLines
            heads == Ascending(HeaderIdx(lines))
        IN  /\ Len(result) = Len(heads)
            /\ \A k \in 1..Len(heads) :
                  /\ result[k].file # <<>>
                  /\ result[k].file =
                        IF lines[heads[k]] \in DOMAIN NewPathOf
                        THEN NewPathOf[lines[heads[k]]]
                        ELSE <<"u", "n", "k", "n", "o", "w", "n">>

(* a header that does not parse between two that do *)
C15_Witness ==
    /\ op = "extract_file_chunks"
    /\ TextIs(<<HeaderXY>> \o <<HeaderBad, HunkA, RemA, AddC>> \o <<HeaderDeep, HunkA, AddC>>)
    /\ Len(result) = 3
    /\ result[1].file = <<"y">>
    /\ result[2].file = <<"u", "n", "k", "n", "o", "w", "n">>
    /\ result[3].file = <<"b", "/", "y">>

(* C16: parse returns or raises ValueError and nothing else;               *)
(* parse_multi_file_diff returns a list of FileDiffs, no exception leaving *)
(* it, and extract_file_chunks returns a list of chunks.                   *)
C16_NoOtherFailure ==
    /\ op = "parse" => result.kind \in {"empty", "FileDiff", "ValueError"}
    /\ op = "parse_multi_file_diff" =>
          \A i \in 1..Len(result) : result[i].kind = "FileDiff"
    /\ op = "extract_file_chunks" =>
          \A i \in 1..Len(result) : DOMAIN result[i] = {"file", "diff"}

(* removal, addition and context lines met while both counters are unset *)
C16_Witness ==
    /\ Parsed
    /\ TextIs(<<HeaderXY, RemA, AddC, TextLine>>)
    /\ result = [kind |-> "FileDiff", file |-> <<"y">>, changes |-> <<>>]

IsAdditionLine(l) == l \in Additions

(* C17: for a single-file diff without a removal line parse returns a      *)
(* FileDiff with its file and no changes, and extract_file_chunks returns  *)
(* one chunk whose diff still holds every "+" line.                        *)
C17_AdditionsOnly ==
    LET lines == InputLines IN
    (\A i \in 1..Len(lines) : lines[i] \notin Removals) =>
        /\ op = "parse" =>
              result = [kind |-> "FileDiff", file |-> <<"y">>, changes |-> <<>>]
        /\ op = "extract_file_chunks" =>
              /\ Len(result) = 1
              /\ SelectSeq(SplitLines(result[1].diff), IsAdditionLine) =
                 SelectSeq(lines, IsAdditionLine)

C17_Witness ==
    /\ op = "extract_file_chunks"
    /\ TextIs(<<HeaderXY, HunkA, CtxLine, AddC, AddD>>)
    /\ Len(result) = 1
    /\ result[1].diff = diff_text

-----------------------------------------------------------------------------
(* What each file name is, stated without the classifier: its final        *)
(* extension, lower-cased and with the dot, and the type listed for it.    *)

ExtensionOf ==
    (Name_a_py :> <<".", "p", "y">>)
    @@ (Name_A_PY :> <<".", "p", "y">>)
    @@ (Name_module_ts :> <<".", "t", "s">>)
    @@ (Name_no_ext :> <<>>)
    @@ (Name_gitignore :> <<>>)
    @@ (Name_app_py :> <<".", "p", "y">>)
    @@ (Name_readme_MD :> <<".", "m", "d">>)
    @@ (Name_README_md :> <<".", "m", "d">>)
    @@ (Name_script_js :> <<".", "j", "s">>)
    @@ (Name_notes_txt :> <<".", "t", "x", "t">>)
    @@ (Name_index_html :> <<".", "h", "t", "m", "l">>)
    @@ (Name_styles_css :> <<".", "c", "s", "s">>)
    @@ (Name_schema_json :> <<".", "j", "s", "o", "n">>)
    @@ (Name_layout_xml :> <<".", "x", "m", "l">>)
    @@ (Name_Dockerfile :> <<>>)
    @@ (Name_archive_zip :> <<".", "z", "i", "p">>)
    @@ (Name_unknown_bin :> <<".", "b", "i", "n">>)

TypeOf ==
    (Name_a_py :> "python")
    @@ (Name_A_PY :> "python")
    @@ (Name_module_ts :> "other")
    @@ (Name_no_ext :> "other")
    @@ (Name_gitignore :> "other")
    @@ (Name_app_py :> "python")
    @@ (Name_readme_MD :> "markdown")
    @@ (Name_README_md :> "markdown")
    @@ (Name_script_js :> "javascript")
    @@ (Name_notes_txt :> "text")
    @@ (Name_index_html :> "html")
    @@ (Name_styles_css :> "css")
    @@ (Name_schema_json :> "json")
    @@ (Name_layout_xml :> "xml")
    @@ (Name_Dockerfile :> "other")
    @@ (Name_archive_zip :> "other")
    @@ (Name_unknown_bin :> "other")

(* C18: get_file_extension returns the final extension of the name,        *)
(* lower-cased and with its leading dot, and the empty string for a name   *)
(* without a dot and for a name whose only dot is its first character.     *)
C18_ExtensionLowerWithDot ==
    op = "get_file_extension" => result = ExtensionOf[file_name]

(* the names under one type, in the order of the list *)
NamesOfType(files, t) ==
    LET HasType(f) == TypeOf[f] = t IN SelectSeq(files, HasType)

GroupedByType(files) ==
    [t \in {TypeOf[files[i]] : i \in 1..Len(files)} |-> NamesOfType(files, t)]

(* C19: classify_file maps a name to the type of its extension,            *)
(* case-insensitively, and to "other" only when the extension is unlisted  *)
(* or missing; classify_files groups every name of its list under that     *)
(* type.                                                                   *)
C19_TypeByExtension ==
    /\ op = "classify_file" => result = TypeOf[file_name]
    /\ op = "classify_files" => result = GroupedByType(file_list)

(* the provider a REVIEWER_PROVIDER value names *)
ProviderNamed ==
    (Provider_gemini :> "gemini") @@ (Provider_Gemini :> "gemini")
    @@ (Provider_GEMINI :> "gemini") @@ (Provider_openai_like :> "openai_like")
    @@ (Provider_OpenAI_Like :> "openai_like") @@ (Provider_openai :> "none")
    @@ (Provider_unset :> "none")

GeminiKeySet == config.GEMINI_API_KEY # <<>>

OpenAILikeKeySet == config.OPENAI_LIKE_API_KEY # <<>>

Created == op = "create_reviewer"

(* C20: create_reviewer returns a reviewer of the configured provider when *)
(* that provider's API key is set; otherwise the Gemini reviewer if its    *)
(* key is set, else the OpenAI-like reviewer if its key is set; it raises  *)
(* ValueError exactly when neither key is set.                             *)
C20_ConfiguredThenFallback ==
    Created =>
        LET configured == ProviderNamed[config.REVIEWER_PROVIDER] IN
        /\ configured = "gemini" /\ GeminiKeySet => result.class = "GeminiReviewer"
        /\ configured = "openai_like" /\ OpenAILikeKeySet => result.class = "OpenAILikeReviewer"
        /\ ~(configured = "gemini" /\ GeminiKeySet)
              /\ ~(configured = "openai_like" /\ OpenAILikeKeySet) =>
                 result.class = IF GeminiKeySet THEN "GeminiReviewer"
                                ELSE IF OpenAILikeKeySet THEN "OpenAILikeReviewer"
                                ELSE "ValueError"
        /\ result.class = "ValueError" <=> ~GeminiKeySet /\ ~OpenAILikeKeySet
        /\ result.class # "ValueError" => is_available(result)

(* the configured provider has no key and the other provider has one *)
C20_Witness ==
    /\ Created
    /\ ProviderNamed[config.REVIEWER_PROVIDER] = "gemini"
    /\ ~GeminiKeySet
    /\ OpenAILikeKeySet
    /\ result.class = "OpenAILikeReviewer"

----------------------------------------------------------------------------
(* The lines of one file's body, stated without the loop: which line a     *)
(* removal is anchored at, and which removals an addition completes.       *)

(* lines with neither marker: they count as context *)
ContextLines == {CtxLine, BlankLine, TextLine}

(* the index of the last hunk header before line i, 0 when there is none *)
LastHunkBefore(lines, i) ==
    LET hs == {h \in 1..(i - 1) : lines[h] \in DOMAIN NewStartOf} IN
    IF hs = {} THEN 0 ELSE CHOOSE h \in hs : \A g \in hs : g <= h

(* new-start of that header plus the context and addition lines since *)
Anchor(lines, i) ==
    LET h == LastHunkBefore(lines, i) IN
    NewStartOf[lines[h]]
        + Cardinality({j \in (h + 1)..(i - 1) : lines[j] \in ContextLines \cup Additions})

(* the next removal or addition line after line i, 0 when there is none *)
NextMarked(lines, i) ==
    LET ms == {j \in (i + 1)..Len(lines) : lines[j] \in Removals \cup Additions} IN
    IF ms = {} THEN 0 ELSE CHOOSE j \in ms : \A k \in ms : j <= k

(* the removals, after a hunk header, that the next marked line completes *)
PairedRemovals(lines) ==
    Ascending({i \in 1..Len(lines) :
                  /\ lines[i] \in Removals
                  /\ LastHunkBefore(lines, i) > 0
                  /\ NextMarked(lines, i) > 0
                  /\ lines[NextMarked(lines, i)] \in Additions})

(* C21: the line of every returned change is the new-start of the last     *)
(* hunk header before its removal line plus the number of context and      *)
(* addition lines between that header and the removal; removal lines do    *)
(* not count.                                                              *)
C21_LineIsAnchor ==
    ReturnedFileDiff =>
        LET lines == InputLines
            paired == PairedRemovals(lines)
        IN  /\ Len(result.changes) = Len(paired)
            /\ \A k \in 1..Len(paired) : result.changes[k].line = Anchor(lines, paired[k])

(* a context line and an addition precede the removal *)
C21_Witness ==
    /\ Parsed
    /\ TextIs(<<HeaderXY, HunkA, CtxLine, AddC, RemB, AddC>>)
    /\ result.changes = << [line |-> 3, old |-> <<" ", "b">>, new |-> <<"c">>] >>

----------------------------------------------------------------------------
(* The metadata lines among the input lines, stated without the parser.    *)

MetadataLines == {OldFile, NewFile, IndexLine, HeaderXY}

IsNoMetadataLine(l) == l \notin MetadataLines

(* the text without the metadata lines that follow its first line *)
WithoutMetadata(lines) == <<Head(lines)>> \o SelectSeq(Tail(lines), IsNoMetadataLine)

(* C22: a line beginning with "+++", "---", "diff --git" or "index " is    *)
(* skipped wherever it occurs, also inside a hunk: parse returns what it   *)
(* returns for the text without those lines.                               *)
C22_MetadataSkipped ==
    Parsed => result = parse(JoinLines(WithoutMetadata(InputLines)))

(* "--- a/x" between a removal and the addition that fills it *)
C22_Witness ==
    /\ Parsed
    /\ TextIs(<<HeaderXY, HunkA, RemA, OldFile, AddC>>)
    /\ result.changes = << [line |-> 1, old |-> <<"a">>, new |-> <<"c">>] >>

(* the index of the first hunk header, Len(lines) + 1 when there is none *)
FirstHunk(lines) ==
    LET hs == {h \in 1..Len(lines) : lines[h] \in DOMAIN NewStartOf} IN
    IF hs = {} THEN Len(lines) + 1 ELSE CHOOSE h \in hs : \A g \in hs : h <= g

(* the file header, then the lines from the first hunk header on *)
FromFirstHunk(lines) == <<Head(lines)>> \o SubSeq(lines, FirstHunk(lines), Len(lines))

(* C23: every line before the first hunk header is skipped: removals and   *)
(* additions there create no change, fill no change and advance no         *)
(* counter, so parse returns what it returns for the text without them.    *)
C23_BeforeFirstHunkSkipped ==
    Parsed => result = parse(JoinLines(FromFirstHunk(InputLines)))

(* a removal and an addition before the hunk header, a pair after it *)
C23_Witness ==
    /\ Parsed
    /\ TextIs(<<HeaderXY, RemA, AddC, HunkA, RemB, AddC>>)
    /\ result.changes = << [line |-> 1, old |-> <<" ", "b">>, new |-> <<"c">>] >>

(* line i is a removal after a hunk header, line j an addition, and the    *)
(* lines between them, at least one, all belong to S                       *)
SeparatedPair(lines, i, j, S) ==
    /\ i + 1 < j
    /\ lines[i] \in Removals
    /\ lines[j] \in Additions
    /\ LastHunkBefore(lines, i) > 0
    /\ \A k \in (i + 1)..(j - 1) : lines[k] \in S

(* the replacement of removal line i by addition line j *)
ReplacementOf(lines, i, j) ==
    [line |-> Anchor(lines, i), old |-> PayloadOf[lines[i]], new |-> PayloadOf[lines[j]]]

Returns(change) == \E k \in 1..Len(result.changes) : result.changes[k] = change

(* C24: context lines do not close an open removal: a removal, one or more *)
(* context lines and then an addition give a replacement of the removal's  *)
(* content by the addition's, at the removal's anchor.                     *)
C24_ContextKeepsRemovalOpen ==
    ReturnedFileDiff =>
        LET lines == InputLines IN
        \A i \in 1..Len(lines), j \in 1..Len(lines) :
            SeparatedPair(lines, i, j, ContextLines) => Returns(ReplacementOf(lines, i, j))

(* two context lines between the removal and the addition: the change is   *)
(* at line 1, while the addition is line 3 of the new file                 *)
C24_Witness ==
    /\ Parsed
    /\ TextIs(<<HeaderXY, HunkA, RemA, CtxLine, CtxLine, AddC>>)
    /\ result.changes = << [line |-> 1, old |-> <<"a">>, new |-> <<"c">>] >>

HunkCount(lines) == Cardinality({h \in 1..Len(lines) : lines[h] \in DOMAIN NewStartOf})

(* C25: the returned changes are in the order of their removal lines in    *)
(* the input, and for an input with exactly one hunk header their line     *)
(* values are strictly increasing.                                         *)
C25_EncounterOrder ==
    ReturnedFileDiff =>
        LET lines == InputLines
            paired == PairedRemovals(lines)
            changes == result.changes
        IN  /\ Len(changes) = Len(paired)
            /\ \A k \in 1..Len(paired) :
                  /\ changes[k].old = PayloadOf[lines[paired[k]]]
                  /\ changes[k].new = PayloadOf[lines[NextMarked(lines, paired[k])]]
            /\ HunkCount(lines) = 1 =>
                  \A k \in 1..(Len(changes) - 1) : changes[k].line < changes[k + 1].line

(* two replacements of one hunk *)
C25_Witness ==
    /\ Parsed
    /\ TextIs(<<HeaderXY, HunkA, RemA, AddC, RemB, AddC>>)
    /\ result.changes = << [line |-> 1, old |-> <<"a">>, new |-> <<"c">>],
                           [line |-> 2, old |-> <<" ", "b">>, new |-> <<"c">>] >>

(* line i is a removal after a hunk header, line h a later hunk header,    *)
(* and no removal or addition line lies between them                       *)
OpenAtHunk(lines, i, h) ==
    /\ i < h
    /\ lines[i] \in Removals
    /\ LastHunkBefore(lines, i) > 0
    /\ lines[h] \in DOMAIN NewStartOf
    /\ \A k \in (i + 1)..(h - 1) : lines[k] \notin Removals \cup Additions

(* the first addition line after line h, 0 when there is none *)
FirstAdditionAfter(lines, h) ==
    LET as == {j \in (h + 1)..Len(lines) : lines[j] \in Additions} IN
    IF as = {} THEN 0 ELSE CHOOSE j \in as : \A k \in as : j <= k

ShortAsContext(lines) ==
    [i \in 1..Len(lines) |-> IF lines[i] = ShortHunk THEN CtxLine ELSE lines[i]]

(* C27: a line "@@ -1 +1 @@", without lengths, is no hunk header and never *)
(* resets the counters: a diff whose hunk headers are all of that form has *)
(* no changes, and after a full-form header the line counts as a context   *)
(* line.                                                                   *)
C27_ShortFormIsNoHeader ==
    Parsed =>
        LET lines == InputLines IN
        /\ (\A i \in 1..Len(lines) : lines[i] \notin DOMAIN NewStartOf) =>
              result = [kind |-> "FileDiff", file |-> <<"y">>, changes |-> <<>>]
        /\ result = parse(JoinLines(ShortAsContext(lines)))

(* after a full-form header the short-form line moves the anchor by one *)
C27_Witness ==
    /\ Parsed
    /\ TextIs(<<HeaderXY, HunkA, ShortHunk, RemA, AddC>>)
    /\ result.changes = << [line |-> 2, old |-> <<"a">>, new |-> <<"c">>] >>

HasNoHunk(lines) == \A i \in 1..Len(lines) : lines[i] \notin DOMAIN NewStartOf

HeaderMatches(seg) == seg[1] \in DOMAIN NewPathOf

(* a file with its name and no changes *)
NoChanges(header) == [kind |-> "FileDiff", file |-> NewPathOf[header], changes |-> <<>>]

(* C28: a segment whose header line matches the file-header pattern and    *)
(* which has no hunk header (a rename-only entry) is no error: parse       *)
(* returns a FileDiff with its file and empty changes, and                 *)
(* parse_multi_file_diff keeps that entry.                                 *)
C28_NoHunkIsNoError ==
    LET lines == InputLines IN
    /\ (Parsed /\ lines # <<>> /\ HeaderMatches(lines) /\ HasNoHunk(lines)) =>
          result = NoChanges(lines[1])
    /\ op = "parse_multi_file_diff" =>
          LET matching == SelectSeq(HeaderSegmentsOf(lines), HeaderMatches) IN
          /\ Len(result) = Len(matching)
          /\ \A k \in 1..Len(matching) :
                HasNoHunk(matching[k]) => result[k] = NoChanges(matching[k][1])

(* two entries without a hunk header, the first with a line after its      *)
(* header                                                                  *)
C28_Witness ==
    /\ op = "parse_multi_file_diff"
    /\ TextIs(<<HeaderXY, TextLine, HeaderXY>>)
    /\ result = << [kind |-> "FileDiff", file |-> <<"y">>, changes |-> <<>>],
                   [kind |-> "FileDiff", file |-> <<"y">>, changes |-> <<>>] >>

FilesOf(entries) == [k \in 1..Len(entries) |-> entries[k].file]

(* the chunk's header line matches the file-header pattern *)
ChunkHeaderMatches(chunk) == FirstLineOf(chunk.diff) \in DOMAIN NewPathOf

(* C29: parse_multi_file_diff and extract_file_chunks segment the input    *)
(* identically: the files parse_multi_file_diff returns are the files of   *)
(* the chunks whose header line matches the file-header pattern, in the    *)
(* same order and as many times.                                           *)
C29_SameSegmentation ==
    op = "parse_multi_file_diff" =>
        FilesOf(result) =
            FilesOf(SelectSeq(extract_file_chunks(diff_text), ChunkHeaderMatches))

(* the same file twice, and between them a header that does not match *)
C29_Witness ==
    /\ op = "parse_multi_file_diff"
    /\ TextIs(<<HeaderXY>> \o <<HeaderBad, HunkA, RemA, AddC>>
              \o <<HeaderXY, HunkA, RemA, AddC>>)
    /\ FilesOf(result) = << <<"y">>, <<"y">> >>
    /\ Len(extract_file_chunks(diff_text)) = 3

----------------------------------------------------------------------------
(* The starts of the wrapped function within a window.                     *)

(* the starts in the half-open window (t - period, t] *)
StartsInWindow(t) == {i \in 1..Len(started) : t - period < started[i] /\ started[i] <= t}

(* C30: for sequential calls at non-decreasing times, no more than         *)
(* max_calls starts of the wrapped function fall within any window         *)
(* (t - period, t], also for a call made right after one that slept.       *)
C30_AtMostMaxCallsPerWindow ==
    \A k \in 1..Len(started) : Cardinality(StartsInWindow(started[k])) <= max_calls

====
